---- MODULE Spec2Model ----
(***************************************************************************)
(* Model of src/unittest.py: the Drink, Food and Order classes.            *)
(*                                                                         *)
(* Objects live in a heap (a sequence, an object's identity is its index), *)
(* so that an Order refers to Drink/Food instances the way Python does:    *)
(* by reference, possibly the same instance at several positions.          *)
(*                                                                         *)
(* Prices are Python floats (IEEE-754 binary64).  A non-negative double    *)
(* that is 0 or lies in [0.25, 64) is a multiple of 2^-54; it is held as   *)
(* the integer N = value * 2^54 written in three limbs <<a, b, c>> of 20   *)
(* bits, N = a*2^40 + b*2^20 + c, because TLC's integers are 32 bits wide. *)
(***************************************************************************)
EXTENDS Integers, Sequences, FiniteSets, TLC

VARIABLES heap, items, op, err, pysum, nAdds, nRemoves

vars == <<heap, items, op, err, pysum, nAdds, nRemoves>>

(***************************************************************************)
(* Bounds of the model.                                                    *)
(***************************************************************************)
MaxToppings == 3
MaxObjs == 2
MaxAdds == 2

(***************************************************************************)
(* binary64 arithmetic on the 2^-54 grid.                                  *)
(***************************************************************************)
Limb == 2^20

RECURSIVE BitLen(_)
BitLen(n) == IF n = 0 THEN 0 ELSE 1 + BitLen(n \div 2)

Norm(a, b, c) ==
    LET b1 == b + (c \div Limb)
    IN  <<a + (b1 \div Limb), b1 % Limb, c % Limb>>

Zero == <<0, 0, 0>>

\* The exact (unrounded) sum of two grid values.
ExactAdd(x, y) == Norm(x[1] + y[1], x[2] + y[2], x[3] + y[3])

\* Round the real number (x + R/D) * 2^-54, 0 <= R < D, to the nearest
\* double, ties to even.  A double has 53 significant bits: of x, which has
\* 40 + BitLen(x[1]) bits, the bits above the 53rd say how many low bits
\* are dropped.
RoundNearestEven(x, R, D) ==
    LET drop == BitLen(x[1] \div 2^13)
        q    == 2^drop
        r    == x[3] % q
        down == x[3] - r
        odd  == (x[3] \div q) % 2 = 1
        twice == 2 * (r * D + R)
        up   == twice > q * D \/ (twice = q * D /\ odd)
    IN  IF up THEN Norm(x[1], x[2], down + q) ELSE <<x[1], x[2], down>>

\* x + y in binary64.
FloatAdd(x, y) ==
    LET s == ExactAdd(x, y)
    IN  RoundNearestEven(<<s[1], s[2], s[3]>>, 0, 1)

\* The double a decimal literal with two fractional digits denotes:
\* cents/100 rounded to nearest.  cents * 2^54 / 100 by long division.
ToDouble(cents) ==
    LET A  == cents * 2^14
        qa == A \div 100
        ra == A % 100
        qb == (ra * Limb) \div 100
        rb == (ra * Limb) % 100
        qc == (rb * Limb) \div 100
        rc == (rb * Limb) % 100
    IN  RoundNearestEven(<<qa, qb, qc>>, rc, 100)

(***************************************************************************)
(* Python values and exceptions.                                           *)
(***************************************************************************)
None == "None"

NoError == [type |-> "None", msg |-> ""]

ValueError(msg) == [type |-> "ValueError", msg |-> msg]

IndexError(msg) == [type |-> "IndexError", msg |-> msg]

\* The spec's error kinds are the exception classes a caller can catch.
InvalidArgument == ValueError("x").type

OutOfRange == IndexError("x").type

Call(name, obj, arg, index) ==
    [name |-> name, obj |-> obj, arg |-> arg, index |-> index]

(***************************************************************************)
(* list.append, list.pop, dict[k] = v, sum().                              *)
(***************************************************************************)
ListAppend(list, x) == Append(list, x)

\* Mutant of ListPop: pop() without the index, the last element goes.
ListPop_Last(list, index) ==
    IF list = <<>> THEN <<"IndexError", list>> ELSE <<"ok", SubSeq(list, 1, Len(list) - 1)>>

\* list.pop(index), index zero-based; a negative index counts from the end.
\* The result is <<"ok", list'>> or <<"IndexError", list>>.
ListPop(list, index) ==
    LET n == Len(list)
        i == IF index < 0 THEN index + n ELSE index
    IN  IF i < 0 \/ i >= n
        THEN <<"IndexError", list>>
        ELSE <<"ok", [k \in 1..(n - 1) |-> IF k <= i THEN list[k] ELSE list[k + 1]]>>

\* A dict is the sequence of its entries in insertion order.
DictKeys(d) == [k \in 1..Len(d) |-> d[k].key]

DictValues(d) == [k \in 1..Len(d) |-> d[k].value]

DictHas(d, key) == \E k \in 1..Len(d) : d[k].key = key

\* Mutant of DictSet: the toppings kept as a list, every add appended.
DictSet_AlwaysAppend(d, key, value) == Append(d, [key |-> key, value |-> value])

\* d[key] = value: an existing key keeps its position, a new one goes last.
DictSet(d, key, value) ==
    IF DictHas(d, key)
    THEN [k \in 1..Len(d) |-> IF d[k].key = key THEN [key |-> key, value |-> value] ELSE d[k]]
    ELSE Append(d, [key |-> key, value |-> value])

RECURSIVE SumLeftToRight(_, _)
SumLeftToRight(acc, xs) ==
    IF xs = <<>> THEN acc ELSE SumLeftToRight(FloatAdd(acc, Head(xs)), Tail(xs))

RECURSIVE SumExact(_, _)
SumExact(acc, xs) ==
    IF xs = <<>> THEN acc ELSE SumExact(ExactAdd(acc, Head(xs)), Tail(xs))

\* The builtin sum() over floats.  CPython up to 3.11 adds left to right;
\* from 3.12 on it uses compensated (Neumaier) summation, which for these
\* magnitudes returns the exact sum rounded once.  pysum is the build.
PySumBuilds == {"left_to_right", "compensated"}

PySum(build, xs) ==
    IF build = "left_to_right"
    THEN SumLeftToRight(Zero, xs)
    ELSE RoundNearestEven(SumExact(Zero, xs), 0, 1)

(***************************************************************************)
(* class Drink                                                             *)
(***************************************************************************)
valid_bases == {"water", "sbrite", "pokeacola", "Mr. Salt", "hill fog", "leaf wine"}

valid_flavors == {"lemon", "cherry", "strawberry", "mint", "blueberry", "lime"}

Drink == [kind |-> "Drink", base |-> None, flavors |-> {}]

IsDrink(o) == o.kind = "Drink"

get_base(d) == d.base

get_flavors(d) == d.flavors

(***************************************************************************)
(* class Food                                                              *)
(***************************************************************************)
\* The price literals, in cents: 2.30 is 230.
FoodLiterals ==
    ("Hotdog" :> 230) @@ ("Corndog" :> 200) @@ ("Ice Cream" :> 300) @@
    ("Onion Rings" :> 175) @@ ("French Fries" :> 150) @@
    ("Tater Tots" :> 170) @@ ("Nacho Chips" :> 190)

ToppingLiterals ==
    ("Cherry" :> 0) @@ ("Whipped Cream" :> 0) @@ ("Caramel Sauce" :> 50) @@
    ("Chocolate Sauce" :> 50) @@ ("Nacho Cheese" :> 30) @@ ("Chili" :> 60) @@
    ("Bacon Bits" :> 30) @@ ("Ketchup" :> 0) @@ ("Mustard" :> 0)

valid_food_items == [i \in DOMAIN FoodLiterals |-> ToDouble(FoodLiterals[i])]

valid_toppings == [t \in DOMAIN ToppingLiterals |-> ToDouble(ToppingLiterals[t])]

Food(food_item) ==
    [kind |-> "Food", food_item |-> food_item,
     base_price |-> valid_food_items[food_item], toppings |-> <<>>]

IsFood(o) == o.kind = "Food"

get_toppings(f) == DictKeys(f.toppings)

get_price(f, build) == FloatAdd(f.base_price, PySum(build, DictValues(f.toppings)))

(***************************************************************************)
(* class Order                                                             *)
(***************************************************************************)
DrinkPrice == ToDouble(500)

get_num_items(order) == Len(order)

\* total = 0.0; for item in items: total += ...
RECURSIVE TotalLoop(_, _, _, _)
TotalLoop(total, order, h, build) ==
    IF order = <<>> THEN total
    ELSE LET item == h[Head(order)]
             t1 == IF IsDrink(item) THEN FloatAdd(total, DrinkPrice)
                   ELSE IF IsFood(item) THEN FloatAdd(total, get_price(item, build))
                   ELSE total
         IN  TotalLoop(t1, Tail(order), h, build)

get_total(order, h, build) == TotalLoop(Zero, order, h, build)

(***************************************************************************)
(* The operations.  op is the last call made, err the exception it raised  *)
(* (NoError if it returned).  nAdds and nRemoves count the add_item and    *)
(* remove_item calls that returned.  The tests on MaxToppings, MaxAdds and *)
(* max only keep the state space finite.                                   *)
(***************************************************************************)
Drinks == {d \in DOMAIN heap : IsDrink(heap[d])}

Foods == {f \in DOMAIN heap : IsFood(heap[f])}

\* Drink()
NewDrink(max) ==
    /\ Len(heap) < max
    /\ heap' = Append(heap, Drink)
    /\ op' = Call("Drink", Len(heap) + 1, "", 0)
    /\ err' = NoError
    /\ UNCHANGED <<items, pysum, nAdds, nRemoves>>

\* Mutant of AddBase: a base already set is kept (first write wins).
AddBase_FirstWriteWins(d, base) ==
    /\ d \in Drinks
    /\ op' = Call("add_base", d, base, 0)
    /\ IF base \notin valid_bases
       THEN /\ err' = ValueError("Invalid base")
            /\ heap' = heap
       ELSE /\ err' = NoError
            /\ heap' = IF heap[d].base = None THEN [heap EXCEPT ![d].base = base] ELSE heap
    /\ UNCHANGED <<items, pysum, nAdds, nRemoves>>

\* Mutant of AddBase: the assignment made before the validity check.
AddBase_AssignBeforeCheck(d, base) ==
    /\ d \in Drinks
    /\ op' = Call("add_base", d, base, 0)
    /\ heap' = [heap EXCEPT ![d].base = base]
    /\ err' = IF base \notin valid_bases THEN ValueError("Invalid base") ELSE NoError
    /\ UNCHANGED <<items, pysum, nAdds, nRemoves>>

\* drink.add_base(base)
AddBase(d, base) ==
    /\ d \in Drinks
    /\ op' = Call("add_base", d, base, 0)
    /\ IF base \notin valid_bases
       THEN /\ err' = ValueError("Invalid base")
            /\ heap' = heap
       ELSE /\ err' = NoError
            /\ heap' = [heap EXCEPT ![d].base = base]
    /\ UNCHANGED <<items, pysum, nAdds, nRemoves>>

\* Mutant of AddFlavor: no check for a flavor already present.
AddFlavor_NoDuplicateCheck(d, flavor) ==
    /\ d \in Drinks
    /\ op' = Call("add_flavor", d, flavor, 0)
    /\ IF flavor \notin valid_flavors
       THEN /\ err' = ValueError("Invalid flavor")
            /\ heap' = heap
       ELSE /\ err' = NoError
            /\ heap' = [heap EXCEPT ![d].flavors = @ \cup {flavor}]
    /\ UNCHANGED <<items, pysum, nAdds, nRemoves>>

\* drink.add_flavor(flavor)
AddFlavor(d, flavor) ==
    /\ d \in Drinks
    /\ op' = Call("add_flavor", d, flavor, 0)
    /\ IF flavor \notin valid_flavors
       THEN /\ err' = ValueError("Invalid flavor")
            /\ heap' = heap
       ELSE IF flavor \in heap[d].flavors
       THEN /\ err' = ValueError("has already been added")
            /\ heap' = heap
       ELSE /\ err' = NoError
            /\ heap' = [heap EXCEPT ![d].flavors = @ \cup {flavor}]
    /\ UNCHANGED <<items, pysum, nAdds, nRemoves>>

\* Food(food_item)
NewFood(food_item, max) ==
    /\ IF food_item \notin DOMAIN valid_food_items
       THEN /\ err' = ValueError("Invalid food item")
            /\ heap' = heap
            /\ op' = Call("Food", 0, food_item, 0)
       ELSE /\ Len(heap) < max
            /\ err' = NoError
            /\ heap' = Append(heap, Food(food_item))
            /\ op' = Call("Food", Len(heap) + 1, food_item, 0)
    /\ UNCHANGED <<items, pysum, nAdds, nRemoves>>

\* Mutant of AddTopping: no validity check, an unknown topping costs nothing.
AddTopping_NoValidation(f, topping) ==
    /\ f \in Foods
    /\ op' = Call("add_topping", f, topping, 0)
    /\ DictHas(heap[f].toppings, topping) \/ Len(heap[f].toppings) < MaxToppings
    /\ err' = NoError
    /\ heap' = [heap EXCEPT ![f].toppings =
                    DictSet(@, topping, IF topping \in DOMAIN valid_toppings
                                        THEN valid_toppings[topping] ELSE Zero)]
    /\ UNCHANGED <<items, pysum, nAdds, nRemoves>>

\* food.add_topping(topping)
AddTopping(f, topping) ==
    /\ f \in Foods
    /\ op' = Call("add_topping", f, topping, 0)
    /\ IF topping \notin DOMAIN valid_toppings
       THEN /\ err' = ValueError("Invalid topping")
            /\ heap' = heap
       ELSE /\ DictHas(heap[f].toppings, topping) \/ Len(heap[f].toppings) < MaxToppings
            /\ err' = NoError
            /\ heap' = [heap EXCEPT ![f].toppings = DictSet(@, topping, valid_toppings[topping])]
    /\ UNCHANGED <<items, pysum, nAdds, nRemoves>>

\* order.add_item(item)
AddItem(item) ==
    /\ item \in DOMAIN heap
    /\ nAdds < MaxAdds
    /\ op' = Call("add_item", item, "", 0)
    /\ err' = NoError
    /\ items' = ListAppend(items, item)
    /\ nAdds' = nAdds + 1
    /\ UNCHANGED <<heap, pysum, nRemoves>>

\* Mutant of RemoveItem: the index < 0 test left out.
RemoveItem_NoNegativeCheck(index) ==
    /\ op' = Call("remove_item", 0, "", index)
    /\ IF index >= Len(items)
       THEN /\ err' = IndexError("Invalid index.")
            /\ UNCHANGED <<items, nRemoves>>
       ELSE LET r == ListPop(items, index)
            IN  IF r[1] = "ok"
                THEN /\ err' = NoError
                     /\ items' = r[2]
                     /\ nRemoves' = nRemoves + 1
                ELSE /\ err' = IndexError("pop index out of range")
                     /\ UNCHANGED <<items, nRemoves>>
    /\ UNCHANGED <<heap, pysum, nAdds>>

\* order.remove_item(index)
RemoveItem(index) ==
    /\ op' = Call("remove_item", 0, "", index)
    /\ IF index < 0 \/ index >= Len(items)
       THEN /\ err' = IndexError("Invalid index.")
            /\ UNCHANGED <<items, nRemoves>>
       ELSE LET r == ListPop(items, index)
            IN  IF r[1] = "ok"
                THEN /\ err' = NoError
                     /\ items' = r[2]
                     /\ nRemoves' = nRemoves + 1
                ELSE /\ err' = IndexError("pop index out of range")
                     /\ UNCHANGED <<items, nRemoves>>
    /\ UNCHANGED <<heap, pysum, nAdds>>

(***************************************************************************)
(* Inputs.                                                                 *)
(***************************************************************************)
BaseInputs == valid_bases \cup {"invalid_base", "Water", "lemon"}

FlavorInputs == valid_flavors \cup {"invalid_flavor", "Cherry", "water"}

FoodInputs == DOMAIN valid_food_items \cup {"InvalidItem", "hotdog"}

ToppingInputs == DOMAIN valid_toppings \cup {"InvalidTopping", "cherry"}

OrderFoodInputs == {"Hotdog", "InvalidItem"}

OrderToppingInputs == {"Chili", "Nacho Cheese", "InvalidTopping"}

IndexInputs == (-2)..MaxAdds

(***************************************************************************)
(* Specifications: an empty Order and no other object to start with.       *)
(***************************************************************************)
Init ==
    /\ heap = <<>>
    /\ items = <<>>
    /\ op = Call("Order", 0, "", 0)
    /\ err = NoError
    /\ pysum \in PySumBuilds
    /\ nAdds = 0
    /\ nRemoves = 0

\* One Drink and the calls on it.
NextDrink ==
    \/ NewDrink(1)
    \/ \E d \in DOMAIN heap, base \in BaseInputs : AddBase(d, base)
    \/ \E d \in DOMAIN heap, flavor \in FlavorInputs : AddFlavor(d, flavor)

SpecDrink == Init /\ [][NextDrink]_vars

\* One Food and the calls on it.
NextFood ==
    \/ \E food_item \in FoodInputs : NewFood(food_item, 1)
    \/ \E f \in DOMAIN heap, topping \in ToppingInputs : AddTopping(f, topping)

SpecFood == Init /\ [][NextFood]_vars

\* An Order over up to MaxObjs Drink and Food instances.
Next ==
    \/ NewDrink(MaxObjs)
    \/ \E food_item \in OrderFoodInputs : NewFood(food_item, MaxObjs)
    \/ \E f \in DOMAIN heap, topping \in OrderToppingInputs : AddTopping(f, topping)
    \/ \E item \in DOMAIN heap : AddItem(item)
    \/ \E index \in IndexInputs : RemoveItem(index)

Spec == Init /\ [][Next]_vars

(***************************************************************************)
(* Properties.                                                             *)
(***************************************************************************)
TypeOK ==
    /\ \A o \in DOMAIN heap : IsDrink(heap[o]) \/ IsFood(heap[o])
    /\ \A k \in DOMAIN items : items[k] \in DOMAIN heap
    /\ err.type \in {"None", "ValueError", "IndexError"}
    /\ pysum \in PySumBuilds

\* The decimal amounts, in cents, that the price tables give.
RECURSIVE CentsOf(_)
CentsOf(toppingSet) ==
    IF toppingSet = {} THEN 0
    ELSE LET t == CHOOSE x \in toppingSet : TRUE
         IN  ToppingLiterals[t] + CentsOf(toppingSet \ {t})

ToppingSet(f) == {f.toppings[k].key : k \in DOMAIN f.toppings}

FoodCents(f) == FoodLiterals[f.food_item] + CentsOf(ToppingSet(f))

RECURSIVE OrderCents(_, _)
OrderCents(order, h) ==
    IF order = <<>> THEN 0
    ELSE (IF IsDrink(h[Head(order)]) THEN 500 ELSE FoodCents(h[Head(order)]))
         + OrderCents(Tail(order), h)

\* The same Food with its toppings stored in every other insertion order.
Reorderings(f) ==
    {[f EXCEPT !.toppings = [k \in DOMAIN f.toppings |-> f.toppings[p[k]]]] :
        p \in Permutations(DOMAIN f.toppings)}

\* C1: add_base(b) with b in the valid set returns without error whatever
\* the base was before, and get_base() then returns b; a Drink just
\* constructed has get_base() unset (None).
C1_AddBaseLastWriteWins ==
    /\ (op.name = "add_base" /\ op.arg \in valid_bases) =>
           (err = NoError /\ get_base(heap[op.obj]) = op.arg)
    /\ op.name = "Drink" => get_base(heap[op.obj]) = None

C1_Witness ==
    /\ op.name = "add_base" /\ op.arg = "leaf wine" /\ err = NoError
    /\ get_base(heap[op.obj]) = "leaf wine"
    /\ get_flavors(heap[op.obj]) = {"mint"}

\* C2: add_base with a value outside the valid set raises ValueError
\* (InvalidArgument) and leaves the Drink's base and flavors as they were.
C2_InvalidBaseRejected ==
    [][(op'.name = "add_base" /\ op'.arg \notin valid_bases) =>
          /\ err'.type = InvalidArgument
          /\ DOMAIN heap' = DOMAIN heap
          /\ get_base(heap'[op'.obj]) = get_base(heap[op'.obj])
          /\ get_flavors(heap'[op'.obj]) = get_flavors(heap[op'.obj])]_vars

C2_Witness ==
    /\ op.name = "add_base" /\ op.arg = "invalid_base"
    /\ err.type = InvalidArgument
    /\ get_base(heap[op.obj]) = "water"
    /\ get_flavors(heap[op.obj]) = {"lemon", "lime"}

\* The three cases of an add_flavor step, told by the state before it.
FlavorFresh == op'.arg \in valid_flavors /\ op'.arg \notin get_flavors(heap[op'.obj])

FlavorDuplicate == op'.arg \in valid_flavors /\ op'.arg \in get_flavors(heap[op'.obj])

FlavorInvalid == op'.arg \notin valid_flavors

\* C3 as stated: a fresh valid flavor is added; a repeated one fails with
\* an error kind distinct from the InvalidArgument of an invalid flavor,
\* leaving the set unchanged.
C3_DuplicateEntryIsDistinctKind ==
    [][op'.name = "add_flavor" =>
          /\ FlavorFresh => (err' = NoError /\ op'.arg \in get_flavors(heap'[op'.obj]))
          /\ FlavorInvalid => err'.type = InvalidArgument
          /\ FlavorDuplicate =>
                 /\ err' # NoError
                 /\ err'.type # InvalidArgument
                 /\ get_flavors(heap'[op'.obj]) = get_flavors(heap[op'.obj])]_vars

\* C3 amended: a fresh valid flavor is added and nothing else changes; a
\* repeated one raises ValueError, the same exception class as an invalid
\* flavor, told apart only by its message, and leaves the set unchanged.
C3_DuplicateFlavorRejected ==
    [][op'.name = "add_flavor" =>
          /\ FlavorFresh =>
                 /\ err' = NoError
                 /\ get_flavors(heap'[op'.obj]) = get_flavors(heap[op'.obj]) \cup {op'.arg}
          /\ FlavorInvalid =>
                 /\ err' = ValueError("Invalid flavor")
                 /\ get_flavors(heap'[op'.obj]) = get_flavors(heap[op'.obj])
          /\ FlavorDuplicate =>
                 /\ err' = ValueError("has already been added")
                 /\ err'.type = InvalidArgument
                 /\ get_flavors(heap'[op'.obj]) = get_flavors(heap[op'.obj])
          /\ get_base(heap'[op'.obj]) = get_base(heap[op'.obj])]_vars

C3_Witness ==
    /\ op.name = "add_flavor" /\ op.arg = "lemon"
    /\ err = ValueError("has already been added")
    /\ get_flavors(heap[op.obj]) = {"lemon", "cherry"}

\* C4: get_price() is the decimal sum of the item's table price and the
\* table prices of the distinct toppings added, each counted once.
C4_PriceIsTableSum ==
    \A f \in Foods : get_price(heap[f], pysum) = ToDouble(FoodCents(heap[f]))

\* C5: add_topping(t) for a recognized t that is already present raises
\* nothing and leaves the topping names and get_price() as they were.
C5_AddToppingIdempotent ==
    [][(/\ op'.name = "add_topping"
        /\ op'.arg \in DOMAIN valid_toppings
        /\ DictHas(heap[op'.obj].toppings, op'.arg)) =>
          /\ err' = NoError
          /\ ToppingSet(heap'[op'.obj]) = ToppingSet(heap[op'.obj])
          /\ Len(get_toppings(heap'[op'.obj])) = Len(get_toppings(heap[op'.obj]))
          /\ get_price(heap'[op'.obj], pysum) = get_price(heap[op'.obj], pysum)]_vars

\* The topping just added is not the last stored one, so it was a re-add.
C5_Witness ==
    /\ op.name = "add_topping" /\ op.arg = "Chili" /\ err = NoError
    /\ get_toppings(heap[op.obj]) = <<"Chili", "Bacon Bits">>

\* C6: every Food has a recognized item with that item's table price, and
\* every stored topping is a recognized one at its table price.
FoodInv ==
    \A f \in Foods :
        /\ heap[f].food_item \in DOMAIN valid_food_items
        /\ heap[f].base_price = valid_food_items[heap[f].food_item]
        /\ \A k \in DOMAIN heap[f].toppings :
               /\ heap[f].toppings[k].key \in DOMAIN valid_toppings
               /\ heap[f].toppings[k].value = valid_toppings[heap[f].toppings[k].key]

FoodStep ==
    /\ \A f \in Foods :
           /\ f \in DOMAIN heap'
           /\ IsFood(heap'[f])
           /\ heap'[f].food_item = heap[f].food_item
           /\ heap'[f].base_price = heap[f].base_price
    /\ (op'.name = "Food" /\ op'.arg \notin DOMAIN valid_food_items) =>
           (err'.type = InvalidArgument /\ heap' = heap)
    /\ (op'.name = "Food" /\ op'.arg \in DOMAIN valid_food_items) =>
           (err' = NoError /\ heap'[op'.obj] = Food(op'.arg))
    /\ (op'.name = "add_topping" /\ op'.arg \notin DOMAIN valid_toppings) =>
           /\ err'.type = InvalidArgument
           /\ get_toppings(heap'[op'.obj]) = get_toppings(heap[op'.obj])
           /\ get_price(heap'[op'.obj], pysum) = get_price(heap[op'.obj], pysum)

\* C6: construction with an unknown name raises ValueError and makes no
\* Food; over any sequence of add_topping calls the item and base price
\* stay those of construction, the stored toppings are recognized ones at
\* their table prices, and an unknown topping raises ValueError and
\* changes neither the toppings nor the price.
C6_FoodInvariant == []FoodInv /\ [][FoodStep]_vars

C6_Witness ==
    /\ op.name = "add_topping" /\ op.arg = "InvalidTopping"
    /\ err.type = InvalidArgument
    /\ heap[op.obj].food_item = "Onion Rings"
    /\ get_toppings(heap[op.obj]) = <<"Ketchup", "Chili">>

\* C7: remove_item(index) raises IndexError (OutOfRange) exactly when
\* index < 0 or index >= the length, and then the items, their number and
\* the total are unchanged.
C7_RemoveOutOfRange ==
    [][op'.name = "remove_item" =>
          /\ err'.type \in {NoError.type, OutOfRange}
          /\ (err'.type = OutOfRange) <=> (op'.index < 0 \/ op'.index >= Len(items))
          /\ err'.type = OutOfRange =>
                 /\ items' = items
                 /\ get_num_items(items') = get_num_items(items)
                 /\ get_total(items', heap', pysum') = get_total(items, heap, pysum)]_vars

C7_Witness ==
    /\ op.name = "remove_item" /\ op.index = -1
    /\ err.type = OutOfRange
    /\ get_num_items(items) = 2

OrderStep ==
    /\ op'.name = "add_item" =>
           /\ get_num_items(items') = get_num_items(items) + 1
           /\ items'[get_num_items(items) + 1] = op'.obj
           /\ \A k \in DOMAIN items : items'[k] = items[k]
    /\ (op'.name = "remove_item" /\ err' = NoError) =>
           /\ get_num_items(items') = get_num_items(items) - 1
           /\ \A k \in DOMAIN items :
                  /\ k - 1 < op'.index => items'[k] = items[k]
                  /\ k - 1 > op'.index => items'[k - 1] = items[k]
    /\ (op'.name \notin {"add_item", "remove_item"} \/ err' # NoError) => items' = items

\* C8: add_item puts the item at the end, a successful remove_item(i)
\* keeps positions below i and moves every later item down by one, nothing
\* else touches the sequence; the number of items is the number of
\* successful adds minus that of successful removes.
C8_InsertionOrder ==
    /\ [](get_num_items(items) = nAdds - nRemoves)
    /\ [][OrderStep]_vars

C8_Witness ==
    /\ op.name = "remove_item" /\ op.index = 0 /\ err = NoError
    /\ items = <<2>>
    /\ nAdds = 2 /\ nRemoves = 1

C10_ExactDecimalArithmetic ==
    /\ \A f \in Foods :
           \A g \in Reorderings(heap[f]) :
               /\ get_price(g, pysum) = get_price(heap[f], pysum)
               /\ get_price(g, pysum) = ToDouble(FoodCents(heap[f]))
    /\ \A k \in 0..Len(items) :
           get_total(SubSeq(items, 1, k), heap, pysum)
               = ToDouble(OrderCents(SubSeq(items, 1, k), heap))

====
